---- MODULE Spec2Model ----
(***************************************************************************)
(* Model of src/lib.rs: the Interval value (months: i32, days: i32,        *)
(* microseconds: i64) and its text, binary (postgres wire) and structured  *)
(* (serde) codecs.                                                         *)
(*                                                                         *)
(* TLC integers are 32 bits wide.  An i32 is a TLC integer; an i64 is a    *)
(* sign and a magnitude written in limbs of three decimal digits, most     *)
(* significant first, without leading zeros: 3_600_000_000 is              *)
(* [neg |-> FALSE, mag |-> <<3, 600, 0, 0>>] and zero has the empty        *)
(* magnitude.  Text is a sequence of one-character strings.                *)
(***************************************************************************)
EXTENDS Integers, Sequences, FiniteSets, TLC

(***************************************************************************)
(* Arithmetic on magnitudes (sequences of limbs in 0..Base-1, most         *)
(* significant first, no leading zero).                                    *)
(***************************************************************************)
Base == 10 ^ 3

\* the element of a one-element set.  Only({F(v) : v \in {e}}) is F(e) with e
\* computed once, however often F uses v: TLC passes arguments unevaluated
Only(S) == CHOOSE x \in S : TRUE

RECURSIVE NatLimbs(_)
NatLimbs(n_) ==
    Only({ IF n = 0 THEN <<>> ELSE NatLimbs(n \div Base) \o <<n % Base>> :
             n \in {n_} })

RECURSIVE LimbsNat(_)
LimbsNat(s_) ==
    Only({ IF s = <<>> THEN 0
           ELSE LimbsNat(SubSeq(s, 1, Len(s) - 1)) * Base + s[Len(s)] :
             s \in {s_} })

RECURSIVE Norm(_)
Norm(s_) ==
    Only({ IF s # <<>> /\ Head(s) = 0 THEN Norm(Tail(s)) ELSE s : s \in {s_} })

\* s with leading zeros, n limbs long
Pad(s_, n_) ==
    Only({ [i \in 1..n |-> IF i <= n - Len(s) THEN 0 ELSE s[i - (n - Len(s))]] :
             s \in {s_}, n \in {n_} })

MaxOf(i, j) == IF i >= j THEN i ELSE j

\* x + y + c from limb i down, x and y of the same length
RECURSIVE AddStep(_, _, _, _, _)
AddStep(x, y, i, c, acc) ==
    IF i = 0 THEN <<c>> \o acc
    ELSE Only({ AddStep(x, y, i - 1, t \div Base, <<t % Base>> \o acc) :
                  t \in {x[i] + y[i] + c} })

MAdd(a_, b_) ==
    Only({ Only({ Norm(AddStep(x, y, Len(x), 0, <<>>)) :
                    x \in {Pad(a, MaxOf(Len(a), Len(b)))},
                    y \in {Pad(b, MaxOf(Len(a), Len(b)))} }) :
             a \in {a_}, b \in {b_} })

\* x - y - c from limb i down, x and y of the same length and x >= y
RECURSIVE SubStep(_, _, _, _, _)
SubStep(x, y, i, c, acc) ==
    IF i = 0 THEN acc
    ELSE Only({ SubStep(x, y, i - 1, IF t < 0 THEN 1 ELSE 0, <<t % Base>> \o acc) :
                  t \in {x[i] - y[i] - c} })

\* a - b, for a >= b
MSub(a_, b_) ==
    Only({ Norm(SubStep(a, y, Len(a), 0, <<>>)) :
             a \in {a_}, y \in {Pad(b_, Len(a_))} })

\* x * k + c from limb i down, for a natural k <= Base
RECURSIVE MulStep(_, _, _, _, _)
MulStep(x, k, i, c, acc) ==
    IF i = 0 THEN NatLimbs(c) \o acc
    ELSE Only({ MulStep(x, k, i - 1, t \div Base, <<t % Base>> \o acc) :
                  t \in {x[i] * k + c} })

MMulSmall(a_, k_) ==
    Only({ Norm(MulStep(a, k, Len(a), 0, <<>>)) : a \in {a_}, k \in {k_} })

\* -1, 0 or 1 as a < b, a = b or a > b
MCmp(a_, b_) ==
    Only({ IF Len(a) < Len(b) THEN -1
           ELSE IF Len(a) > Len(b) THEN 1
           ELSE IF a = b THEN 0
           ELSE LET k == CHOOSE k \in 1..Len(a) :
                            a[k] # b[k] /\ \A j \in 1..(k - 1) : a[j] = b[j]
                IN  IF a[k] < b[k] THEN -1 ELSE 1 :
             a \in {a_}, b \in {b_} })

\* a * b, one limb of b at a time
RECURSIVE MulLimbs(_, _, _, _)
MulLimbs(a, b, i, acc) ==
    IF i > Len(b) THEN acc
    ELSE Only({ MulLimbs(a, b, i + 1, next) :
                  next \in {MAdd(MMulSmall(acc, Base), MMulSmall(a, b[i]))} })

MMul(a_, b_) == Only({ MulLimbs(a, b, 1, <<>>) : a \in {a_}, b \in {b_} })

\* the largest q in lo..hi with q * b <= cur (lo * b <= cur)
RECURSIVE QuotLimb(_, _, _, _)
QuotLimb(cur, b, lo, hi) ==
    IF lo = hi THEN lo
    ELSE Only({ IF MCmp(MMulSmall(b, mid), cur) <= 0
                THEN QuotLimb(cur, b, mid, hi)
                ELSE QuotLimb(cur, b, lo, mid - 1) :
                  mid \in {(lo + hi + 1) \div 2} })

\* long division of a by b # 0, one limb of a at a time: <<quotient, remainder>>
RECURSIVE DivStep(_, _, _, _, _)
DivStep(a, b, i, q, r) ==
    IF i > Len(a) THEN <<Norm(q), r>>
    ELSE Only({ Only({ Only({ DivStep(a, b, i + 1, q \o <<d>>, rest) :
                                rest \in {MSub(cur, MMulSmall(b, d))} }) :
                         d \in {QuotLimb(cur, b, 0, Base - 1)} }) :
                  cur \in {Norm(r \o <<a[i]>>)} })

MDivMod(a_, b_) == Only({ DivStep(a, b, 1, <<>>, <<>>) : a \in {a_}, b \in {b_} })

(***************************************************************************)
(* The integer types of the Interval's fields.                             *)
(***************************************************************************)
I32Max == 2147483647

I32Min == -2147483647 - 1

I64Max == [neg |-> FALSE, mag |-> <<9, 223, 372, 36, 854, 775, 807>>]

I64Min == [neg |-> TRUE, mag |-> <<9, 223, 372, 36, 854, 775, 808>>]

\* 2^64, the modulus of the two's-complement representation of an i64
Pow2_64 == <<18, 446, 744, 73, 709, 551, 616>>

I64(neg, mag_) == Only({ [neg |-> neg /\ mag # <<>>, mag |-> mag] : mag \in {mag_} })

I64Zero == I64(FALSE, <<>>)

\* the i64 literal whose digits, in groups of three, are s; and its negation
Dec(s) == I64(FALSE, s)

Neg(s) == I64(TRUE, s)

\* an i32 widened to i64 (as i64::from)
I64FromI32(n) ==
    IF n >= 0 THEN I64(FALSE, NatLimbs(n))
    ELSE I64(TRUE, MAdd(NatLimbs(-(n + 1)), <<1>>))

InI64(x_) ==
    Only({ IF x.neg THEN MCmp(x.mag, I64Min.mag) <= 0
           ELSE MCmp(x.mag, I64Max.mag) <= 0 : x \in {x_} })

InI32(x_) ==
    Only({ MCmp(x.mag, I64FromI32(IF x.neg THEN I32Min ELSE I32Max).mag) <= 0 :
             x \in {x_} })

\* an i64 known to lie in the i32 range, as an i32
I32FromI64(x_) ==
    Only({ IF x.neg THEN -LimbsNat(MSub(x.mag, <<1>>)) - 1 ELSE LimbsNat(x.mag) :
             x \in {x_} })

\* Rust's / and % on i32: the quotient truncates toward zero and the
\* remainder takes the sign of the dividend (b > 0)
I32Div(a, b) == IF a >= 0 THEN a \div b ELSE (a + (b - 1)) \div b

I32Rem(a, b) == a - b * I32Div(a, b)

\* Rust's / and % on i64, for a divisor d > 0
I64Div(x_, d) ==
    Only({ I64(x.neg # d.neg, MDivMod(x.mag, d.mag)[1]) : x \in {x_} })

I64Rem(x_, d) == Only({ I64(x.neg, MDivMod(x.mag, d.mag)[2]) : x \in {x_} })

I64Gt0(x) == ~x.neg /\ x.mag # <<>>

(***************************************************************************)
(* to_be_bytes / from_be_bytes: big-endian two's complement.               *)
(***************************************************************************)
\* the n low bytes of the magnitude u, most significant first
RECURSIVE BytesOf(_, _, _)
BytesOf(u, n, acc) ==
    IF n = 0 THEN acc
    ELSE Only({ BytesOf(qr[1], n - 1, <<LimbsNat(qr[2])>> \o acc) :
                  qr \in {MDivMod(u, <<256>>)} })

\* the magnitude whose bytes are b, most significant first
RECURSIVE OfBytes(_, _, _)
OfBytes(b, i, acc) ==
    IF i > Len(b) THEN acc
    ELSE Only({ OfBytes(b, i + 1, next) :
                  next \in {MAdd(MMulSmall(acc, 256), NatLimbs(b[i]))} })

i64_to_be_bytes(x) == BytesOf(IF x.neg THEN MSub(Pow2_64, x.mag) ELSE x.mag, 8, <<>>)

i64_from_be_bytes(b) ==
    Only({ IF b[1] >= 128 THEN I64(TRUE, MSub(Pow2_64, u)) ELSE I64(FALSE, u) :
             u \in {OfBytes(b, 1, <<>>)} })

\* \div rounds down, so these are the bytes of n mod 2^32
i32_to_be_bytes(n) ==
    <<(n \div 16777216) % 256, (n \div 65536) % 256, (n \div 256) % 256, n % 256>>

i32_from_be_bytes(b) ==
    (IF b[1] >= 128 THEN b[1] - 256 ELSE b[1]) * 16777216
        + b[2] * 65536 + b[3] * 256 + b[4]

(***************************************************************************)
(* Results: Ok(val), Err(val), or a panic that unwinds out of the call.    *)
(***************************************************************************)
Ok(v) == [tag |-> "Ok", val |-> v]

Err(e) == [tag |-> "Err", val |-> e]

Panic(m) == [tag |-> "panic", val |-> m]

\* pg_interval::Interval { months, days, microseconds }
Interval(m, d, us) == [months |-> m, days |-> d, microseconds |-> us]

(***************************************************************************)
(* Binary wire codec.                                                      *)
(***************************************************************************)
\* buf[lo..hi].copy_from_slice(src): slicing past the end of buf panics
copy_from_slice(buf, lo, hi, src) ==
    IF buf.tag = "panic" THEN buf
    ELSE IF hi > Len(buf.val) THEN Panic("range end index out of range")
    ELSE IF hi - lo # Len(src) THEN Panic("source slice length does not match")
    ELSE Ok([i \in 1..Len(buf.val) |->
                IF i > lo /\ i <= hi THEN src[i - lo] ELSE buf.val[i]])

\* Interval::bytes; vec![0u8, 16] is the two-element vector [0, 16]
bytes(self) ==
    LET buf0 == Ok(<<0, 16>>)
        buf1 == copy_from_slice(buf0, 0, 8, i64_to_be_bytes(self.microseconds))
        buf2 == copy_from_slice(buf1, 8, 12, i32_to_be_bytes(self.days))
        buf3 == copy_from_slice(buf2, 12, 16, i32_to_be_bytes(self.months))
    IN  buf3

\* to_sql with the months written before the days
to_sql_months_first(self, buf) ==
    [w   |-> buf \o i64_to_be_bytes(self.microseconds)
                 \o i32_to_be_bytes(self.months)
                 \o i32_to_be_bytes(self.days),
     ret |-> Ok("IsNull::No")]

\* ToSql::to_sql: the buffer after the call and the value returned
to_sql(self, buf) ==
    [w   |-> buf \o i64_to_be_bytes(self.microseconds)
                 \o i32_to_be_bytes(self.days)
                 \o i32_to_be_bytes(self.months),
     ret |-> Ok("IsNull::No")]

\* from_sql with the months read from bytes 8..12 and the days from 12..16
from_sql_fields_swapped(raw) ==
    IF Len(raw) < 16 THEN Panic("range end index out of range")
    ELSE Ok(Interval(i32_from_be_bytes(SubSeq(raw, 9, 12)),
                     i32_from_be_bytes(SubSeq(raw, 13, 16)),
                     i64_from_be_bytes(SubSeq(raw, 1, 8))))

\* FromSql::from_sql: raw[a..b] panics when b exceeds the length of raw
from_sql(raw) ==
    IF Len(raw) < 16 THEN Panic("range end index out of range")
    ELSE Ok(Interval(i32_from_be_bytes(SubSeq(raw, 13, 16)),
                     i32_from_be_bytes(SubSeq(raw, 9, 12)),
                     i64_from_be_bytes(SubSeq(raw, 1, 8))))

(***************************************************************************)
(* Text: "{}" of an integer, and the literals of the formatter.            *)
(***************************************************************************)
DigitChar(d) == <<"0", "1", "2", "3", "4", "5", "6", "7", "8", "9">>[d + 1]

RECURSIVE NatText(_)
NatText(n) ==
    IF n < 10 THEN <<DigitChar(n)>> ELSE NatText(n \div 10) \o <<DigitChar(n % 10)>>

\* a limb below the first one, with its leading zeros
LimbText(l) == <<DigitChar(l \div 100), DigitChar((l \div 10) % 10), DigitChar(l % 10)>>

RECURSIVE LimbsText(_, _, _)
LimbsText(mag, i, acc) ==
    IF i > Len(mag) THEN acc
    ELSE LimbsText(mag, i + 1, acc \o LimbText(mag[i]))

\* Display of an i32
I32Text(n) ==
    IF n >= 0 THEN NatText(n)
    ELSE LET q == I32Div(n, 10)
         IN  <<"-">> \o (IF q = 0 THEN <<>> ELSE NatText(-q))
                     \o <<DigitChar(-I32Rem(n, 10))>>

\* Display of an i64
I64Text(x_) ==
    Only({ IF x.mag = <<>> THEN <<"0">>
           ELSE (IF x.neg THEN <<"-">> ELSE <<>>)
                    \o LimbsText(x.mag, 2, NatText(x.mag[1])) :
             x \in {x_} })

StrYears == <<"y", "e", "a", "r", "s">>

StrMons == <<"m", "o", "n", "s">>

StrDays == <<"d", "a", "y", "s">>

StrHours == <<"h", "o", "u", "r", "s">>

StrMinutes == <<"m", "i", "n", "u", "t", "e", "s">>

StrSeconds == <<"s", "e", "c", "o", "n", "d", "s">>

StrMilliseconds == <<"m", "i", "l", "l", "i">> \o StrSeconds

StrMicroseconds == <<"m", "i", "c", "r", "o">> \o StrSeconds

(***************************************************************************)
(* Text formatter: Display for Interval.                                   *)
(***************************************************************************)
\* write!(buf, "{} <unit> ", value) when the condition holds
WriteUnit(buf, cond, valueText, unit) ==
    IF cond THEN buf \o valueText \o <<" ">> \o unit \o <<" ">> ELSE buf

\* Display::fmt: what the Formatter f holds after the call and the value
\* returned.  The "0 seconds" of the empty case is written to buf, a local.
fmt(self, f) ==
    LET years        == I32Div(self.months, 12)
        months       == I32Rem(self.months, 12)
        days         == self.days
        hours        == I64Div(self.microseconds, Dec(<<3, 600, 0, 0>>))
        minutes      == I64Div(I64Rem(self.microseconds, Dec(<<3, 600, 0, 0>>)),
                               Dec(<<60, 0, 0>>))
        seconds      == I64Div(I64Rem(self.microseconds, Dec(<<60, 0, 0>>)),
                               Dec(<<1, 0, 0>>))
        milliseconds == I64Div(I64Rem(self.microseconds, Dec(<<1, 0, 0>>)),
                               Dec(<<1, 0>>))
        microseconds == I64Rem(self.microseconds, Dec(<<1, 0>>))
        buf1 == WriteUnit(<<>>, years > 0, I32Text(years), StrYears)
        buf2 == WriteUnit(buf1, months > 0, I32Text(months), StrMons)
        buf3 == WriteUnit(buf2, days > 0, I32Text(days), StrDays)
        buf4 == WriteUnit(buf3, I64Gt0(hours), I64Text(hours), StrHours)
        buf5 == WriteUnit(buf4, I64Gt0(minutes), I64Text(minutes), StrMinutes)
        buf6 == WriteUnit(buf5, I64Gt0(seconds), I64Text(seconds), StrSeconds)
        buf7 == WriteUnit(buf6, I64Gt0(milliseconds), I64Text(milliseconds),
                          StrMilliseconds)
        buf  == WriteUnit(buf7, I64Gt0(microseconds), I64Text(microseconds),
                          StrMicroseconds)
    IN  IF buf = <<>>
        THEN [f |-> f, ret |-> Ok(<<>>)]
        ELSE [f |-> f \o SubSeq(buf, 1, Len(buf) - 1), ret |-> Ok(<<>>)]

\* ToString::to_string: fmt into a new String
to_string(self) == Ok(fmt(self, <<>>).f)

(***************************************************************************)
(* Text parser: pg_interval::Interval::from_postgres, the grammar of the   *)
(* specification's section 4.1.  Integers here are unbounded (a sign and a *)
(* magnitude); the ranges of the fields are checked at the end.            *)
(***************************************************************************)
IntAdd(x_, y_) ==
    Only({ IF x.neg = y.neg THEN I64(x.neg, MAdd(x.mag, y.mag))
           ELSE IF MCmp(x.mag, y.mag) >= 0 THEN I64(x.neg, MSub(x.mag, y.mag))
           ELSE I64(y.neg, MSub(y.mag, x.mag)) :
             x \in {x_}, y \in {y_} })

IntMul(x_, y_) ==
    Only({ I64(x.neg # y.neg, MMul(x.mag, y.mag)) : x \in {x_}, y \in {y_} })

\* pg_interval::ParseError: a classification and the string it carries
PgError(kind, msg) == [kind |-> kind, msg |-> msg]

ErrorKinds ==
    {"InvalidInterval", "InvalidTime", "InvalidYearMonth", "ParseIntErr",
     "ParseFloatErr"}

IsDigit(c) == \E d \in 0..9 : DigitChar(d) = c

DigitVal(c) == CHOOSE d \in 0..9 : DigitChar(d) = c

\* the magnitude written by the digits ds
RECURSIVE DigitsMag(_, _, _)
DigitsMag(ds, i, acc) ==
    IF i > Len(ds) THEN acc
    ELSE Only({ DigitsMag(ds, i + 1, next) :
                  next \in {MAdd(MMulSmall(acc, 10), NatLimbs(DigitVal(ds[i])))} })

AllDigits(ds) == ds # <<>> /\ \A i \in 1..Len(ds) : IsDigit(ds[i])

\* an integer literal: an optional sign and digits
ParseInt(tok_) ==
    Only({ LET signed == tok # <<>> /\ tok[1] \in {"-", "+"}
           IN  Only({ IF AllDigits(ds)
                      THEN Ok(I64(signed /\ tok[1] = "-", DigitsMag(ds, 1, <<>>)))
                      ELSE Err(PgError("ParseIntErr", tok)) :
                        ds \in {IF signed THEN Tail(tok) ELSE tok} }) :
             tok \in {tok_} })

\* the pieces of t between the occurrences of the separator sep
Pieces(t_, sep) ==
    Only({ Only({ LET nth(k) == CHOOSE i \in cuts :
                                  Cardinality({j \in cuts : j < i}) = k - 1
                  IN  [k \in 1..(Cardinality(cuts) - 1) |->
                          SubSeq(t, nth(k) + 1, nth(k + 1) - 1)] :
                    cuts \in {{0, Len(t) + 1} \cup {i \in 1..Len(t) : t[i] = sep}} }) :
             t \in {t_} })

\* the whitespace-separated tokens of t
Tokens(t) == SelectSeq(Pieces(t, " "), LAMBDA p : p # <<>>)

Singular(unit) == SubSeq(unit, 1, Len(unit) - 1)

StrMins == <<"m", "i", "n", "s">>

StrSecs == <<"s", "e", "c", "s">>

\* the unit a designator names, "" when it names none
UnitOf(tok_) ==
    Only({ IF tok \in {StrYears, Singular(StrYears)} THEN "years"
           ELSE IF tok \in {StrMons, Singular(StrMons)} THEN "mons"
           ELSE IF tok \in {StrDays, Singular(StrDays)} THEN "days"
           ELSE IF tok \in {StrHours, Singular(StrHours)} THEN "hours"
           ELSE IF tok \in {StrMinutes, Singular(StrMinutes), StrMins,
                            Singular(StrMins)}
                THEN "minutes"
           ELSE IF tok \in {StrSeconds, Singular(StrSeconds), StrSecs,
                            Singular(StrSecs)}
                THEN "seconds"
           ELSE "" :
             tok \in {tok_} })

StrUnknown ==
    <<"U", "n", "k", "n", "o", "w", "n", " ", "o", "r", " ", "d", "u", "p",
      "l", "i", "c", "a", "t", "e", " ", "d", "e", "l", "i", "m", "i", "n",
      "a", "t", "o", "r", " ">>

UnknownDelim(tok) ==
    PgError("InvalidInterval", StrUnknown \o <<"\"">> \o tok \o <<"\"">>)

MicrosPerHour == Dec(<<3, 600, 0, 0>>)

MicrosPerMinute == Dec(<<60, 0, 0>>)

MicrosPerSecond == Dec(<<1, 0, 0>>)

\* the fraction of a second written by 1..6 digits, in microseconds
FractionMicros(ds) ==
    DigitsMag([i \in 1..6 |-> IF i <= Len(ds) THEN ds[i] ELSE "0"], 1, <<>>)

\* the microseconds of HH, MM and SS[.ffffff], all of digits
TimeMicros(hh, mm, sec) ==
    IntAdd(IntAdd(IntMul(I64(FALSE, DigitsMag(hh, 1, <<>>)), MicrosPerHour),
                  IntMul(I64(FALSE, DigitsMag(mm, 1, <<>>)), MicrosPerMinute)),
           IntAdd(IntMul(I64(FALSE, DigitsMag(sec[1], 1, <<>>)), MicrosPerSecond),
                  IF Len(sec) = 2 THEN I64(FALSE, FractionMicros(sec[2]))
                  ELSE I64Zero))

\* [-]HH:MM:SS[.ffffff], in microseconds
ParseTime(tok_) ==
    Only({ Only({ IF Len(parts) # 3 THEN Err(PgError("InvalidTime", tok))
                  ELSE IF ~AllDigits(parts[1])
                  THEN Err(PgError("ParseIntErr", parts[1]))
                  ELSE IF ~AllDigits(parts[2])
                  THEN Err(PgError("ParseIntErr", parts[2]))
                  ELSE Only({ IF \/ Len(sec) > 2
                                 \/ ~AllDigits(sec[1])
                                 \/ Len(sec) = 2 /\ (~AllDigits(sec[2])
                                                       \/ Len(sec[2]) > 6)
                              THEN Err(PgError("ParseFloatErr", parts[3]))
                              ELSE Ok(I64(tok[1] = "-",
                                          TimeMicros(parts[1], parts[2], sec).mag)) :
                                sec \in {Pieces(parts[3], ".")} }) :
                    parts \in {Pieces(IF tok[1] = "-" THEN Tail(tok) ELSE tok,
                                      ":")} }) :
             tok \in {tok_} })

\* the accumulator after the pair <value> <unit>
Accumulate(acc, value, unit) ==
    LET twelve == I64(FALSE, <<12>>)
    IN  CASE unit = "years" ->
                [acc EXCEPT !.months = IntAdd(@, IntMul(value, twelve))]
          [] unit = "mons" -> [acc EXCEPT !.months = IntAdd(@, value)]
          [] unit = "days" -> [acc EXCEPT !.days = IntAdd(@, value)]
          [] unit = "hours" ->
                [acc EXCEPT !.microseconds = IntAdd(@, IntMul(value, MicrosPerHour))]
          [] unit = "minutes" ->
                [acc EXCEPT !.microseconds = IntAdd(@, IntMul(value, MicrosPerMinute))]
          [] unit = "seconds" ->
                [acc EXCEPT !.microseconds = IntAdd(@, IntMul(value, MicrosPerSecond))]

\* the pair <value> <unit> at tokens i and i + 1
RECURSIVE ParseTokens(_, _, _, _)
ParsePair(toks, i, seen, acc) ==
    Only({ IF v.tag = "Err" THEN v
           ELSE IF i = Len(toks) THEN Err(PgError("InvalidInterval", toks[i]))
           ELSE Only({ IF unit = "" \/ unit \in seen
                       THEN Err(UnknownDelim(toks[i + 1]))
                       ELSE Only({ ParseTokens(toks, i + 2, seen \cup {unit}, next) :
                                     next \in {Accumulate(acc, v.val, unit)} }) :
                         unit \in {UnitOf(toks[i + 1])} }) :
             v \in {ParseInt(toks[i])} })

\* the tokens from the i-th on; seen are the designators met so far
ParseTokens(toks, i, seen, acc) ==
    IF i > Len(toks) THEN Ok(acc)
    ELSE IF \E k \in 1..Len(toks[i]) : toks[i][k] = ":"
    THEN IF "time" \in seen THEN Err(UnknownDelim(toks[i]))
         ELSE Only({ IF t.tag = "Err" THEN t
                     ELSE Only({ ParseTokens(toks, i + 1, seen \cup {"time"}, next) :
                                   next \in {[acc EXCEPT !.microseconds =
                                                             IntAdd(@, t.val)]} }) :
                       t \in {ParseTime(toks[i])} })
    ELSE ParsePair(toks, i, seen, acc)

from_postgres(text) ==
    Only({ Only({ IF r.tag = "Err" THEN r
                  ELSE IF ~InI32(r.val.months) \/ ~InI32(r.val.days)
                              \/ ~InI64(r.val.microseconds)
                  THEN Err(PgError("InvalidInterval", text))
                  ELSE Ok(Interval(I32FromI64(r.val.months),
                                   I32FromI64(r.val.days), r.val.microseconds)) :
                    r \in {ParseTokens(toks, 1, {}, Interval(I64Zero, I64Zero,
                                                             I64Zero))} }) :
             toks \in {Tokens(text)} })

(***************************************************************************)
(* ParseError, Interval::new and FromStr.                                  *)
(***************************************************************************)
\* From<pg_interval::ParseError> for ParseError
ParseErrorFrom(pg) == [pg |-> pg]

\* ParseErrorFmt with nothing written for a float-parse failure
ParseErrorFmt_float_dropped(self, f) ==
    [f   |-> f \o (IF self.pg.kind = "ParseFloatErr" THEN <<>> ELSE self.pg.msg),
     ret |-> Ok(<<>>)]

\* Display for ParseError: what f holds after the call and the value returned
ParseErrorFmt(self, f) ==
    [f   |-> f \o (CASE self.pg.kind = "InvalidInterval" -> self.pg.msg
                     [] self.pg.kind = "InvalidTime" -> self.pg.msg
                     [] self.pg.kind = "InvalidYearMonth" -> self.pg.msg
                     [] self.pg.kind = "ParseIntErr" -> self.pg.msg
                     [] self.pg.kind = "ParseFloatErr" -> self.pg.msg),
     ret |-> Ok(<<>>)]

\* Interval::new: the ? converts the parser's error with From
new(interval) ==
    Only({ IF r.tag = "Err" THEN Err(ParseErrorFrom(r.val)) ELSE Ok(r.val) :
             r \in {from_postgres(interval)} })

\* FromStr::from_str
from_str(s) == new(s)

(***************************************************************************)
(* Structured codec.  A record is the sequence of its entries, each a key  *)
(* and the integer written for it.                                         *)
(***************************************************************************)
Entry(key, value) == [key |-> key, value |-> value]

\* serialize with the days under "m" and the months under "d"
serialize_fields_swapped(self) ==
    Ok(<<Entry("m", I64FromI32(self.days)),
         Entry("d", I64FromI32(self.months)),
         Entry("us", self.microseconds)>>)

\* Serialize::serialize: the fields handed to the serializer, in order
serialize(self) ==
    Ok(<<Entry("m", I64FromI32(self.months)),
         Entry("d", I64FromI32(self.days)),
         Entry("us", self.microseconds)>>)

\* Option
None == <<>>

Some(v) == <<v>>

\* serde::de::Error::duplicate_field, unknown_field, missing_field
duplicate_field(field) == [error |-> "duplicate field", field |-> field]

unknown_field(field) == [error |-> "unknown field", field |-> field]

missing_field(field) == [error |-> "missing field", field |-> field]

\* MapAccess::next_value::<i32> and ::<i64>: the deserializer refuses an
\* integer the type cannot hold
next_value_i32(value) ==
    IF InI32(value) THEN Ok(I32FromI64(value))
    ELSE Err([error |-> "invalid value", field |-> ""])

next_value_i64(value) ==
    IF InI64(value) THEN Ok(value)
    ELSE Err([error |-> "invalid value", field |-> ""])

\* the locals of visit_map before the loop
NoSlots == [months |-> None, days |-> None, microseconds |-> None]

\* one turn of the loop of visit_map, on the entry next_key found: the
\* locals after it, and the error it returns if it returns
visit_entry(slots, entry) ==
    LET i32 == next_value_i32(entry.value)
        i64 == next_value_i64(entry.value)
    IN  CASE entry.key = "m" ->
                IF slots.months # None
                THEN [slots |-> slots, ret |-> Some(Err(duplicate_field("m")))]
                ELSE IF i32.tag = "Err" THEN [slots |-> slots, ret |-> Some(i32)]
                ELSE [slots |-> [slots EXCEPT !.months = Some(i32.val)],
                      ret |-> None]
          [] entry.key = "d" ->
                IF slots.days # None
                THEN [slots |-> slots, ret |-> Some(Err(duplicate_field("d")))]
                ELSE IF i32.tag = "Err" THEN [slots |-> slots, ret |-> Some(i32)]
                ELSE [slots |-> [slots EXCEPT !.days = Some(i32.val)],
                      ret |-> None]
          [] entry.key = "us" ->
                IF slots.microseconds # None
                THEN [slots |-> slots, ret |-> Some(Err(duplicate_field("us")))]
                ELSE IF i64.tag = "Err" THEN [slots |-> slots, ret |-> Some(i64)]
                ELSE [slots |-> [slots EXCEPT !.microseconds = Some(i64.val)],
                      ret |-> None]
          [] OTHER ->
                [slots |-> slots, ret |-> Some(Err(unknown_field(entry.key)))]

\* visit_end with a missing "us" read as zero
visit_end_defaulting(slots) ==
    IF slots.months = None THEN Err(missing_field("m"))
    ELSE IF slots.days = None THEN Err(missing_field("d"))
    ELSE Ok(Interval(slots.months[1], slots.days[1],
                     IF slots.microseconds = None THEN [neg |-> FALSE, mag |-> <<>>]
                     ELSE slots.microseconds[1]))

\* visit_map after the loop
visit_end(slots) ==
    IF slots.months = None THEN Err(missing_field("m"))
    ELSE IF slots.days = None THEN Err(missing_field("d"))
    ELSE IF slots.microseconds = None THEN Err(missing_field("us"))
    ELSE Ok(Interval(slots.months[1], slots.days[1], slots.microseconds[1]))

(***************************************************************************)
(* Records given to the deserializer.                                      *)
(***************************************************************************)
\* a record has at most MaxKeys entries
MaxKeys == 4

\* 3_000_000_000 is no i32 and 10^19 is no i64
SampleEntries ==
    {Entry("m", Neg(<<2>>)), Entry("m", Dec(<<3, 0, 0, 0>>)),
     Entry("d", Dec(<<7>>)),
     Entry("us", Dec(<<3, 0, 0, 0>>)), Entry("us", Dec(<<10, 0, 0, 0, 0, 0, 0>>)),
     Entry("x", Dec(<<1>>))}

SampleRecords == UNION {[1..n -> SampleEntries] : n \in 0..MaxKeys}

\* the records with the entries of rec in any order
Reorderings(rec) ==
    {[i \in 1..Len(rec) |-> rec[f[i]]] :
        f \in {g \in [1..Len(rec) -> 1..Len(rec)] :
                  \A i, j \in 1..Len(rec) : i # j => g[i] # g[j]}}

SerdeIntervals ==
    {Interval(1, 2, Dec(<<3>>)), Interval(I32Min, I32Max, I64Min),
     Interval(I32Max, -2, I64Max), Interval(0, 0, I64Zero)}

(***************************************************************************)
(* Texts given to the parser.                                              *)
(***************************************************************************)
\* "1 mons 2 days 3 seconds" of test_interval_from_str
TextTest ==
    <<"1", " ", "m", "o", "n", "s", " ", "2", " ", "d", "a", "y", "s", " ",
      "3", " ", "s", "e", "c", "o", "n", "d", "s">>

\* "1 monthss" of test_anyhow_error_propagation
TextMonthss ==
    <<"1", " ", "m", "o", "n", "t", "h", "s", "s">>

\* ""
TextEmpty == <<>>

\* "  "
TextBlank ==
    <<" ", " ">>

\* "1 year 2 days 03:04:05"
TextMixed ==
    <<"1", " ", "y", "e", "a", "r", " ", "2", " ", "d", "a", "y", "s", " ",
      "0", "3", ":", "0", "4", ":", "0", "5">>

\* "-1 days -2 hours 5 mins"
TextNegative ==
    <<"-", "1", " ", "d", "a", "y", "s", " ", "-", "2", " ", "h", "o", "u",
      "r", "s", " ", "5", " ", "m", "i", "n", "s">>

\* "-00:00:01.5"
TextFraction ==
    <<"-", "0", "0", ":", "0", "0", ":", "0", "1", ".", "5">>

\* "1 day 2 days"
TextDuplicate ==
    <<"1", " ", "d", "a", "y", " ", "2", " ", "d", "a", "y", "s">>

\* "x days"
TextBadInt ==
    <<"x", " ", "d", "a", "y", "s">>

\* "1:2"
TextBadTime ==
    <<"1", ":", "2">>

\* "00:00:1.x"
TextBadFloat ==
    <<"0", "0", ":", "0", "0", ":", "1", ".", "x">>

\* "1 days 2"
TextOdd ==
    <<"1", " ", "d", "a", "y", "s", " ", "2">>

SampleTexts ==
    {TextTest, TextMonthss, TextEmpty, TextBlank,
     TextMixed, TextNegative, TextFraction, TextDuplicate,
     TextBadInt, TextBadTime, TextBadFloat, TextOdd}

\* the errors a caller may convert with ParseError::from
PgParseErrors == {PgError(kind, msg) : kind \in ErrorKinds, msg \in {TextMonthss, TextBadTime}}

(***************************************************************************)
(* State.  One Interval is constructed and the operations of the public    *)
(* interface are then called on it.                                        *)
(*   iv    the Interval                                                    *)
(*   w     the BytesMut that to_sql appends to                             *)
(*   call  the last call: its name, its argument and what it returned      *)
(*   prev  the call before it                                              *)
(*   map   the entries the MapAccess of a running visit_map has yet to     *)
(*         yield, and slots the locals months, days, microseconds of it    *)
(***************************************************************************)
VARIABLES iv, w, call, prev, map, slots

vars == <<iv, w, call, prev, map, slots>>

\* the return value of a call that has not returned yet
Pending == [tag |-> "pending", val |-> <<>>]

\* to_sql is called at most MaxWrites times on the same buffer
MaxWrites == 2

NoCall == [op |-> "none", arg |-> <<>>, ret |-> Ok("none")]

Called(op, arg, ret) == [op |-> op, arg |-> arg, ret |-> ret]

\* the bytes of test_interval_from_sql
TestBytes == <<0, 0, 0, 0, 0, 45, 198, 192, 0, 0, 0, 2, 0, 0, 0, 1>>

MonthsValues == {I32Min, -13, -1, 0, 1, 14, I32Max}

DaysValues == {I32Min, -2, 0, 2, 3, I32Max}

MicrosecondsValues ==
    {I64Min, Neg(<<3, 0, 0>>), Neg(<<1>>), I64Zero, Dec(<<3>>),
     Dec(<<3, 0, 0>>), Dec(<<14, 706, 7, 8>>), I64Max}

Intervals ==
    {Interval(m, d, us) : m \in MonthsValues, d \in DaysValues,
                          us \in MicrosecondsValues}

Init ==
    /\ iv \in Intervals
    /\ w = <<>>
    /\ call = NoCall
    /\ prev = NoCall
    /\ map = <<>>
    /\ slots = NoSlots

InitSerde ==
    /\ iv \in SerdeIntervals
    /\ w = <<>>
    /\ call = NoCall
    /\ prev = NoCall
    /\ map = <<>>
    /\ slots = NoSlots

(***************************************************************************)
(* The binary codec's operations.                                          *)
(***************************************************************************)
ToSql ==
    /\ call.op \in {"none", "to_sql"}
    /\ Len(w) < 16 * MaxWrites
    /\ LET r == to_sql(iv, w)
       IN  /\ w' = r.w
           /\ call' = Called("to_sql", w, r.ret)
    /\ prev' = call
    /\ UNCHANGED <<iv, map, slots>>

Bytes ==
    /\ call.op = "none"
    /\ call' = Called("bytes", <<>>, bytes(iv))
    /\ prev' = call
    /\ UNCHANGED <<iv, w, map, slots>>

\* what a caller may pass as raw: the buffer, a truncation of it, its tail,
\* or the same of the test's bytes
RawInputs ==
    LET b == IF w = <<>> THEN TestBytes ELSE w
    IN  {SubSeq(b, 1, n) : n \in 0..Len(b)}
            \cup {SubSeq(b, n, Len(b)) : n \in 1..(Len(b) - 15)}

FromSql ==
    /\ call.op \in {"none", "to_sql"}
    /\ \E raw \in RawInputs :
          call' = Called("from_sql", raw, from_sql(raw))
    /\ prev' = call
    /\ UNCHANGED <<iv, w, map, slots>>

(***************************************************************************)
(* The text codec's operations.                                            *)
(***************************************************************************)
IntervalToString ==
    /\ call.op = "none"
    /\ call' = Called("to_string", <<>>, to_string(iv))
    /\ prev' = call
    /\ UNCHANGED <<iv, w, map, slots>>

\* Interval::new on a sample text, or on the text to_string returned
New ==
    /\ call.op \in {"none", "to_string"}
    /\ \E text \in IF call.op = "none" THEN SampleTexts ELSE {call.ret.val} :
          call' = Called("new", text, new(text))
    /\ prev' = call
    /\ UNCHANGED <<iv, w, map, slots>>

FromStr ==
    /\ call.op = "none"
    /\ \E s \in SampleTexts :
          call' = Called("from_str", s, from_str(s))
    /\ prev' = call
    /\ UNCHANGED <<iv, w, map, slots>>

ErrorFrom ==
    /\ call.op = "none"
    /\ \E pg \in PgParseErrors :
          call' = Called("ParseError::from", pg, Ok(ParseErrorFrom(pg)))
    /\ prev' = call
    /\ UNCHANGED <<iv, w, map, slots>>

\* to_string of the ParseError the last call returned
ErrorToString ==
    /\ \/ call.op \in {"new", "from_str"} /\ call.ret.tag = "Err"
       \/ call.op = "ParseError::from"
    /\ call' = Called("ParseError::to_string", call.ret.val,
                      Ok(ParseErrorFmt(call.ret.val, <<>>).f))
    /\ prev' = call
    /\ UNCHANGED <<iv, w, map, slots>>

(***************************************************************************)
(* The structured codec's operations.                                      *)
(***************************************************************************)
Serialize ==
    /\ call.op = "none"
    /\ call' = Called("serialize", <<>>, serialize(iv))
    /\ prev' = call
    /\ UNCHANGED <<iv, w, map, slots>>

\* Deserialize::deserialize on a sample record, or on the record serialize
\* returned with its fields in any order: the deserializer calls visit_map
Deserialize ==
    /\ call.op \in {"none", "serialize"}
    /\ \E rec \in IF call.op = "none" THEN SampleRecords
                   ELSE Reorderings(call.ret.val) :
          /\ call' = Called("deserialize", rec, Pending)
          /\ map' = rec
    /\ slots' = NoSlots
    /\ prev' = call
    /\ UNCHANGED <<iv, w>>

\* while let Some(key) = visitor.next_key()? { ... }
VisitKey ==
    /\ call.op = "deserialize" /\ call.ret = Pending
    /\ map # <<>>
    /\ LET r == visit_entry(slots, Head(map))
       IN  /\ slots' = r.slots
           /\ call' = IF r.ret = None THEN call ELSE [call EXCEPT !.ret = r.ret[1]]
    /\ map' = Tail(map)
    /\ UNCHANGED <<iv, w, prev>>

\* next_key() yields no key
VisitEnd ==
    /\ call.op = "deserialize" /\ call.ret = Pending
    /\ map = <<>>
    /\ call' = [call EXCEPT !.ret = visit_end(slots)]
    /\ UNCHANGED <<iv, w, prev, map, slots>>

NextSql == ToSql \/ Bytes \/ FromSql

NextText == IntervalToString \/ New \/ FromStr \/ ErrorFrom \/ ErrorToString

SpecText == Init /\ [][NextText]_vars

NextSerde == Serialize \/ Deserialize \/ VisitKey \/ VisitEnd

SpecSerde == InitSerde /\ [][NextSerde]_vars

SpecSql == Init /\ [][NextSql]_vars

(***************************************************************************)
(* Properties of the binary codec (SpecSql).                               *)
(***************************************************************************)
\* the number whose big-endian base-256 digits are b
UnsignedValue(b) == OfBytes(b, 1, <<>>)

\* x modulo 2^64
Unsigned64(x) == IF x.neg THEN MSub(Pow2_64, x.mag) ELSE x.mag

\* the number four bytes are the big-endian two's complement of
Signed32(b) ==
    ((b[1] - (IF b[1] >= 128 THEN 256 ELSE 0)) * 65536 + b[2] * 256 + b[3]) * 256
        + b[4]

IsByte(x) == x \in 0..255

TestInterval == Interval(1, 2, Dec(<<3, 0, 0>>))

\* C1: to_sql on an empty buffer leaves exactly 16 bytes: 0-7 the
\* microseconds as a big-endian two's-complement 64-bit number, 8-11 the days
\* and 12-15 the months as big-endian 32-bit numbers; months=1, days=2,
\* microseconds=3000000 gives the bytes of the test.
ToSqlLayout ==
    call.op = "to_sql" /\ call.arg = <<>> =>
        /\ Len(w) = 16
        /\ \A i \in 1..16 : IsByte(w[i])
        /\ UnsignedValue(SubSeq(w, 1, 8)) = Unsigned64(iv.microseconds)
        /\ Signed32(SubSeq(w, 9, 12)) = iv.days
        /\ Signed32(SubSeq(w, 13, 16)) = iv.months
        /\ (iv = TestInterval => w = TestBytes)

ToSqlLayoutWitness ==
    /\ call.op = "to_sql" /\ call.arg = <<>>
    /\ iv = Interval(I32Min, -2, Neg(<<3, 0, 0>>))

\* C2: from_sql of the bytes to_sql produced returns the same months, days
\* and microseconds, negative and extreme values included.
BinaryRoundTrip ==
    /\ call.op = "from_sql" /\ call.arg = w
    /\ prev.op = "to_sql" /\ prev.arg = <<>>
    => call.ret = Ok(iv)

BinaryRoundTripWitness ==
    /\ call.op = "from_sql" /\ call.arg = w
    /\ prev.op = "to_sql" /\ prev.arg = <<>>
    /\ iv = Interval(I32Max, I32Min, I64Min)
    /\ call.ret.tag = "Ok"

\* C3: Interval::bytes and to_sql complete without error or panic and yield
\* exactly 16 bytes, bytes the same ones as to_sql.
EncodingNeverFails ==
    /\ call.op = "to_sql" => call.ret.tag = "Ok" /\ Len(w) = Len(call.arg) + 16
    /\ call.op = "bytes" =>
          /\ call.ret.tag = "Ok"
          /\ Len(call.ret.val) = 16
          /\ call.ret.val = to_sql(iv, <<>>).w

\* C6: from_sql returns Err for fewer than 16 bytes, rather than aborting,
\* and succeeds for 16 bytes or more.
TruncatedInputIsErr ==
    call.op = "from_sql" =>
        /\ Len(call.arg) < 16 => call.ret.tag = "Err"
        /\ Len(call.arg) >= 16 => call.ret.tag = "Ok"

(***************************************************************************)
(* Properties of the text codec (SpecText).                                *)
(***************************************************************************)
StrZeroSeconds == <<"0", " ">> \o StrSeconds

\* C4: an Interval whose months, days and microseconds are all zero formats
\* as exactly "0 seconds".
ZeroFormatsAsZeroSeconds ==
    call.op = "to_string" /\ iv = Interval(0, 0, I64Zero) =>
        call.ret = Ok(StrZeroSeconds)

\* the eight components, by truncating division, each with its entry
UnitEntries(self) ==
    LET us    == self.microseconds
        item(nonzero, valueText, unit) ==
            [nonzero |-> nonzero, text |-> valueText \o <<" ">> \o unit]
        i32(n, unit) == item(n # 0, I32Text(n), unit)
        i64(x, unit) == item(x # I64Zero, I64Text(x), unit)
    IN  <<i32(I32Div(self.months, 12), StrYears),
          i32(I32Rem(self.months, 12), StrMons),
          i32(self.days, StrDays),
          i64(I64Div(us, MicrosPerHour), StrHours),
          i64(I64Div(I64Rem(us, MicrosPerHour), MicrosPerMinute), StrMinutes),
          i64(I64Div(I64Rem(us, MicrosPerMinute), MicrosPerSecond), StrSeconds),
          i64(I64Div(I64Rem(us, MicrosPerSecond), Dec(<<1, 0>>)), StrMilliseconds),
          i64(I64Rem(us, Dec(<<1, 0>>)), StrMicroseconds)>>

RECURSIVE JoinEntries(_)
JoinEntries(es) ==
    IF es = <<>> THEN <<>>
    ELSE IF Len(es) = 1 THEN es[1].text
    ELSE es[1].text \o <<" ">> \o JoinEntries(Tail(es))

NonzeroEntries(self) == SelectSeq(UnitEntries(self), LAMBDA e : e.nonzero)

\* C5: the output has one "<value> <unit>" entry for exactly the components
\* that are not zero, negative ones included, in the order years, mons, days,
\* hours, minutes, seconds, milliseconds, microseconds, joined by single
\* spaces.
FormatsEveryNonzeroUnit ==
    call.op = "to_string" /\ NonzeroEntries(iv) # <<>> =>
        call.ret = Ok(JoinEntries(NonzeroEntries(iv)))

\* Unknown or duplicate deliminator "monthss"
StrMonthssMessage ==
    <<"U", "n", "k", "n", "o", "w", "n", " ", "o", "r", " ", "d", "u", "p",
      "l", "i", "c", "a", "t", "e", " ", "d", "e", "l", "i", "m", "i", "n",
      "a", "t", "o", "r", " ", "\"", "m", "o", "n", "t", "h", "s", "s", "\"">>

\* C9: when the parser rejects the text, new and from_str return Err with
\* the parser's classification unchanged; the message displayed for each of
\* the five classifications is the string it carries; "1 monthss" fails with
\* Unknown or duplicate deliminator "monthss".
ParseErrorsPropagate ==
    /\ call.op \in {"new", "from_str"} =>
          LET r == from_postgres(call.arg)
          IN  r.tag = "Err" => call.ret.tag = "Err" /\ call.ret.val.pg = r.val
    /\ call.op = "ParseError::to_string" =>
          /\ call.arg.pg.kind \in ErrorKinds
          /\ call.ret = Ok(call.arg.pg.msg)
    /\ /\ call.op = "ParseError::to_string"
       /\ prev.op \in {"new", "from_str"}
       /\ prev.arg = TextMonthss
       => call.ret = Ok(StrMonthssMessage)

ParseErrorsPropagateWitness ==
    /\ call.op = "ParseError::to_string"
    /\ prev.op = "new" /\ prev.arg = TextMonthss
    /\ call.arg.pg.kind = "InvalidInterval"

\* C10: the text the formatter produces parses back to an Interval with the
\* same months, days and microseconds.
TextRoundTrip ==
    call.op = "new" /\ prev.op = "to_string" => call.ret = Ok(iv)

(***************************************************************************)
(* Properties of the structured codec (SpecSerde).                         *)
(***************************************************************************)
FieldNames == {"m", "d", "us"}

KeyRepeats(rec, i) == \E j \in 1..(i - 1) : rec[j].key = rec[i].key

KeyUnknown(rec, i) == rec[i].key \notin FieldNames

ValueUnreadable(rec, i) ==
    \/ rec[i].key \in {"m", "d"} /\ ~InI32(rec[i].value)
    \/ rec[i].key = "us" /\ ~InI64(rec[i].value)

\* the first entry the deserialization cannot get past, 0 when there is none
FirstStop(rec) ==
    LET stops == {i \in 1..Len(rec) :
                     KeyRepeats(rec, i) \/ KeyUnknown(rec, i) \/ ValueUnreadable(rec, i)}
    IN  IF stops = {} THEN 0 ELSE CHOOSE i \in stops : \A j \in stops : i <= j

ValueOf(rec, field) == (CHOOSE i \in 1..Len(rec) : rec[i].key = field)

\* C7: a second occurrence of m, d or us fails with a duplicate-field error
\* naming it; a key outside {m, d, us} fails with an unknown-field error; a
\* record consumed to its end that lacks a field fails with a missing-field
\* error naming an absent field; an Interval is returned only when each of
\* m, d, us occurred exactly once.  (Entries are consumed in order, so the
\* first entry that cannot be passed decides; an integer the field's type
\* cannot hold is the deserializer's own error.)
DeserializeContract ==
    call.op = "deserialize" /\ call.ret # Pending =>
        LET rec  == call.arg
            k    == FirstStop(rec)
            keys == {rec[i].key : i \in 1..Len(rec)}
        IN  /\ k # 0 /\ KeyUnknown(rec, k) =>
                  call.ret = Err(unknown_field(rec[k].key))
            /\ k # 0 /\ KeyRepeats(rec, k) =>
                  call.ret = Err(duplicate_field(rec[k].key))
            /\ k = 0 /\ ~(FieldNames \subseteq keys) =>
                  /\ call.ret.tag = "Err"
                  /\ call.ret.val.error = "missing field"
                  /\ call.ret.val.field \in FieldNames \ keys
            /\ call.ret.tag = "Ok" =>
                  /\ Len(rec) = 3
                  /\ \A f \in FieldNames :
                        Cardinality({i \in 1..Len(rec) : rec[i].key = f}) = 1
                  /\ I64FromI32(call.ret.val.months) = rec[ValueOf(rec, "m")].value
                  /\ I64FromI32(call.ret.val.days) = rec[ValueOf(rec, "d")].value
                  /\ call.ret.val.microseconds = rec[ValueOf(rec, "us")].value

DeserializeContractWitness ==
    /\ call.op = "deserialize"
    /\ Len(call.arg) = 4 /\ map = <<>>
    /\ call.ret = Err(duplicate_field("d"))

\* C8: serialization emits exactly the fields m, d, us, in that order, with
\* the stored values; deserializing them, in that or any other order,
\* returns an Interval with the same months, days and microseconds.
StructuredRoundTrip ==
    /\ call.op = "serialize" =>
          /\ call.ret.tag = "Ok"
          /\ [i \in 1..Len(call.ret.val) |-> call.ret.val[i].key] = <<"m", "d", "us">>
          /\ InI32(call.ret.val[1].value) /\ InI32(call.ret.val[2].value)
          /\ I32FromI64(call.ret.val[1].value) = iv.months
          /\ I32FromI64(call.ret.val[2].value) = iv.days
          /\ call.ret.val[3].value = iv.microseconds
    /\ call.op = "deserialize" /\ prev.op = "serialize" /\ call.ret # Pending =>
          call.ret = Ok(iv)

StructuredRoundTripWitness ==
    /\ call.op = "deserialize" /\ prev.op = "serialize"
    /\ call.arg[1].key = "us" /\ call.arg[3].key = "m"
    /\ iv = Interval(I32Min, I32Max, I64Min)
    /\ call.ret.tag = "Ok"

====
